---- MODULE Spec2Model ----
(***************************************************************************)
(* Model of sv_rl/auto_experiments.py: the orchestrator run() that fills   *)
(* a shared queue of device tokens, enumerates the parameter grid and      *)
(* submits one _worker invocation per combination to a process pool, and   *)
(* the _worker that sleeps, takes a token, runs the external command and   *)
(* puts the token back.                                                    *)
(***************************************************************************)
EXTENDS Naturals, Integers, Sequences, FiniteSets, Bags, TLC

(***************************************************************************)
(* Bounds of the model.  The shipped configuration has four device ids;    *)
(* the model ranges over device lists of 1..MaxGpus ids.                   *)
(***************************************************************************)
MaxGpus == 2

\* max_worker_num = len(which_gpus) * 2 : the factor of line 9.
WorkersPerGpu == 2

\* ---------------------------------------------------------------------
\* Configuration literals (lines 10-41)
\* ---------------------------------------------------------------------
COMMANDS == << "python3 main.py " >>

batch_sizes == << 64 >>

maskps == << "0.5" >>

me_types == << "svt" >>

svrls == << "--svrl" >>

env_name_map ==
    [e \in {"AlienNoFrameskip-v4", "AtlantisNoFrameskip-v4",
            "CrazyClimberNoFrameskip-v4", "IceHockeyNoFrameskip-v4",
            "BreakoutNoFrameskip-v4", "FrostbiteNoFrameskip-v4",
            "ZaxxonNoFrameskip-v4"} |->
        CASE e = "AlienNoFrameskip-v4" -> "alien"
          [] e = "AtlantisNoFrameskip-v4" -> "atlantis"
          [] e = "CrazyClimberNoFrameskip-v4" -> "crazy_climber"
          [] e = "IceHockeyNoFrameskip-v4" -> "ice_hockey"
          [] e = "BreakoutNoFrameskip-v4" -> "breakout"
          [] e = "FrostbiteNoFrameskip-v4" -> "frostbite"
          [] e = "ZaxxonNoFrameskip-v4" -> "zaxxon"]

timestamp_map ==
    [e \in {"AlienNoFrameskip-v4", "AtlantisNoFrameskip-v4",
            "CrazyClimberNoFrameskip-v4", "IceHockeyNoFrameskip-v4",
            "BreakoutNoFrameskip-v4", "FrostbiteNoFrameskip-v4",
            "ZaxxonNoFrameskip-v4"} |->
        CASE e = "AlienNoFrameskip-v4" -> 15000000
          [] e = "AtlantisNoFrameskip-v4" -> 30000000
          [] e = "CrazyClimberNoFrameskip-v4" -> 15000000
          [] e = "IceHockeyNoFrameskip-v4" -> 15000000
          [] e = "BreakoutNoFrameskip-v4" -> 15000000
          [] e = "FrostbiteNoFrameskip-v4" -> 10000000
          [] e = "ZaxxonNoFrameskip-v4" -> 15000000]

\* Environment names the list envs (line 21) is drawn from: three names the
\* lookup tables know and one they do not.
EnvNames ==
    {"AlienNoFrameskip-v4", "AtlantisNoFrameskip-v4", "CrazyClimberNoFrameskip-v4",
     "PongNoFrameskip-v4"}

\* The first names of envs as shipped (line 21), in their order.
KnownEnvs ==
    << "AlienNoFrameskip-v4", "AtlantisNoFrameskip-v4", "CrazyClimberNoFrameskip-v4" >>

InsertAt(s, p, v) == SubSeq(s, 1, p - 1) \o << v >> \o SubSeq(s, p, Len(s))

\* The lists envs can be: the first one, two or three shipped names, as
\* they are or with the unknown name put in at any place.  Which names
\* the list holds matters to the workers only through their number and
\* the place of the unknown one.
EnvLists ==
    {SubSeq(KnownEnvs, 1, n) : n \in 1..Len(KnownEnvs)}
        \cup UNION {{InsertAt(SubSeq(KnownEnvs, 1, n), p, "PongNoFrameskip-v4") :
                        p \in 1..(n + 1)} : n \in 0..Len(KnownEnvs)}

\* The lists which_gpus can be (line 8): the ids 0..K-1 in order.
GpuLists == {[j \in 1..k |-> j - 1] : k \in 1..MaxGpus}

VARIABLES
    envs,           \* line 21, fixed for the run
    which_gpus,     \* line 8, fixed for the run
    max_worker_num, \* line 9, fixed for the run
    grid,           \* lines 10-23: the lists the loops of run() go through
    orch_pc,        \* position of run()
    i,              \* loop counter of _init_device_queue
    loop,           \* number of grid combinations run() has gone through
    device_queue,   \* the manager queue: tokens in FIFO order
    tasks,          \* commands handed to apply_async, in submission order
    wpc,            \* position of each submitted _worker invocation
    device,         \* the local variable device of each invocation
    launched,       \* how many times os.system ran each command
    cuda,           \* CUDA_VISIBLE_DEVICES given to each command (-1: none)
    status,         \* what os.system returned for each command (-1: not yet)
    logged,         \* invocations whose traceback was logged (line 93)
    errors          \* invocations handed to error_callback (line 75)

vars == << envs, which_gpus, max_worker_num, grid, orch_pc, i, loop, device_queue,
           tasks, wpc, device, launched, cuda, status, logged, errors >>

config == << envs, which_gpus, max_worker_num, grid >>

\* The lists as shipped.
ShippedGrid ==
    [COMMANDS    |-> COMMANDS,
     svrls       |-> svrls,
     batch_sizes |-> batch_sizes,
     maskps      |-> maskps,
     me_types    |-> me_types]

\* ---------------------------------------------------------------------
\* Tokens.  The queue holds device ids; id is the position of the put that
\* created the token, which tells two tokens of one device apart.
\* ---------------------------------------------------------------------
NoToken == [id |-> 0, gpu |-> -1]

\* The token made of the index idx instead of the device which_gpus[idx].
Token_NoIndex(j, gpus) == [id |-> j + 1, gpu |-> j % Len(gpus)]

\* Lines 46-48: the token of iteration j (from 0) of the fill loop.
Token(j, gpus) == [id |-> j + 1, gpu |-> gpus[(j % Len(gpus)) + 1]]

\* The fill without the cycling of line 46: every token is the first device.
init_device_queue_NoCycle(n, gpus) == [j \in 1..n |-> [id |-> j, gpu |-> gpus[1]]]

\* _init_device_queue(n) over the device list gpus: lines 42-49.
_init_device_queue(n, gpus) == [j \in 1..n |-> Token(j - 1, gpus)]

\* ---------------------------------------------------------------------
\* Enumeration of the grid: lines 60-70
\* ---------------------------------------------------------------------
GridSize(es) ==
    Len(es) * Len(grid.me_types) * Len(grid.maskps) * Len(grid.batch_sizes)
        * Len(grid.svrls) * Len(grid.COMMANDS)

\* The loops nested the other way round, envs innermost.
Combo_EnvInnermost(es, k) ==
    LET nE == Len(es)
        nT == Len(grid.me_types)
        nM == Len(grid.maskps)
        nB == Len(grid.batch_sizes)
        nS == Len(grid.svrls)
    IN  [env        |-> es[(k % nE) + 1],
         me_type    |-> grid.me_types[((k \div nE) % nT) + 1],
         maskp      |-> grid.maskps[((k \div (nE * nT)) % nM) + 1],
         batch_size |-> grid.batch_sizes[((k \div (nE * nT * nM)) % nB) + 1],
         svrl       |-> grid.svrls[((k \div (nE * nT * nM * nB)) % nS) + 1],
         command    |-> grid.COMMANDS[(k \div (nE * nT * nM * nB * nS)) + 1]]

\* The k-th combination (k from 0) of the nested loops, envs outermost and
\* COMMANDS innermost.
Combo(es, k) ==
    LET nC == Len(grid.COMMANDS)
        nS == Len(grid.svrls)
        nB == Len(grid.batch_sizes)
        nM == Len(grid.maskps)
        nT == Len(grid.me_types)
    IN  [command    |-> grid.COMMANDS[(k % nC) + 1],
         svrl       |-> grid.svrls[((k \div nC) % nS) + 1],
         batch_size |-> grid.batch_sizes[((k \div (nC * nS)) % nB) + 1],
         maskp      |-> grid.maskps[((k \div (nC * nS * nB)) % nM) + 1],
         me_type    |-> grid.me_types[((k \div (nC * nS * nB * nM)) % nT) + 1],
         env        |-> es[(k \div (nC * nS * nB * nM * nT)) + 1]]

\* Lines 66-69.
svrl_string(svrl) == IF svrl = "--svrl" THEN "svrl" ELSE ""

\* The f-string of line 70 reads timestamp_map[env] and env_name_map[env].
LookupFails(c) == c.env \notin DOMAIN timestamp_map \/ c.env \notin DOMAIN env_name_map

\* The last word of the command string of line 70: the output tag.
Tag(c) ==
    env_name_map[c.env] \o "_dqn_" \o svrl_string(c.svrl) \o "_" \o c.me_type \o "_"
        \o c.maskp \o "_" \o ToString(c.batch_size)

\* The command string of line 70 (text), with the fields it is made of.
Command(c) ==
    [text          |-> c.command \o "--env " \o c.env \o " " \o c.svrl \o " --me_type "
                          \o c.me_type \o " --maskp " \o c.maskp \o " --batch-size "
                          \o ToString(c.batch_size) \o " --num_timesteps "
                          \o ToString(timestamp_map[c.env]) \o " " \o Tag(c),
     base          |-> c.command,
     env           |-> c.env,
     svrl          |-> c.svrl,
     me_type       |-> c.me_type,
     maskp         |-> c.maskp,
     batch_size    |-> c.batch_size,
     num_timesteps |-> timestamp_map[c.env],
     tag           |-> Tag(c)]

\* ---------------------------------------------------------------------
\* Derived sets
\* ---------------------------------------------------------------------
Tasks == DOMAIN tasks

\* Invocations a pool process is executing.
Active == {t \in Tasks : wpc[t] \in {"sleep", "get", "acquired", "running", "put"}}

\* Invocations that hold a token taken from the queue and not put back.
Holding == {t \in Tasks : wpc[t] \in {"acquired", "running", "put"}}

Terminal == {t \in Tasks : wpc[t] \in {"done", "failed", "killed"}}

Init ==
    /\ envs \in EnvLists
    /\ which_gpus \in GpuLists
    /\ max_worker_num = Len(which_gpus) * WorkersPerGpu
    /\ grid = ShippedGrid
    /\ orch_pc = "start"
    /\ i = 0
    /\ loop = 0
    /\ device_queue = << >>
    /\ tasks = << >>
    /\ wpc = << >>
    /\ device = << >>
    /\ launched = << >>
    /\ cuda = << >>
    /\ status = << >>
    /\ logged = {}
    /\ errors = {}

\* ---------------------------------------------------------------------
\* run(): lines 51-77
\* ---------------------------------------------------------------------
\* Lines 56-57: the process pool is created, then _init_device_queue is entered.
CreatePool ==
    /\ orch_pc = "start"
    /\ orch_pc' = "init"
    /\ UNCHANGED << config, i, loop, device_queue, tasks, status, wpc, device, launched,
                    cuda, logged, errors >>

\* Lines 45-48: one iteration of the fill loop.
InitPut ==
    /\ orch_pc = "init"
    /\ i < max_worker_num
    /\ device_queue' = Append(device_queue, _init_device_queue(max_worker_num, which_gpus)[i + 1])
    /\ i' = i + 1
    /\ UNCHANGED << config, orch_pc, loop, tasks, status, wpc, device, launched, cuda,
                    logged, errors >>

\* Line 49 and line 58: the loop is over, the queue is returned to run().
InitReturn ==
    /\ orch_pc = "init"
    /\ i >= max_worker_num
    /\ orch_pc' = "enum"
    /\ UNCHANGED << config, i, loop, device_queue, tasks, status, wpc, device, launched,
                    cuda, logged, errors >>

\* apply_async reached while _init_device_queue is still filling the queue.
Submit_BeforeFill ==
    /\ orch_pc \in {"init", "enum"}
    /\ loop < GridSize(envs)
    /\ ~LookupFails(Combo(envs, loop))
    /\ tasks' = Append(tasks, Command(Combo(envs, loop)))
    /\ wpc' = Append(wpc, "queued")
    /\ device' = Append(device, NoToken)
    /\ launched' = Append(launched, 0)
    /\ cuda' = Append(cuda, -1)
    /\ status' = Append(status, -1)
    /\ loop' = loop + 1
    /\ UNCHANGED << config, orch_pc, i, device_queue, logged, errors >>

\* Lines 60-75, one combination whose lookups succeed: apply_async.
Submit ==
    /\ orch_pc = "enum"
    /\ loop < GridSize(envs)
    /\ ~LookupFails(Combo(envs, loop))
    /\ tasks' = Append(tasks, Command(Combo(envs, loop)))
    /\ wpc' = Append(wpc, "queued")
    /\ device' = Append(device, NoToken)
    /\ launched' = Append(launched, 0)
    /\ cuda' = Append(cuda, -1)
    /\ status' = Append(status, -1)
    /\ loop' = loop + 1
    /\ UNCHANGED << config, orch_pc, i, device_queue, logged, errors >>

\* Line 70, one combination whose lookup raises KeyError: run() is left.
SubmitKeyError ==
    /\ orch_pc = "enum"
    /\ loop < GridSize(envs)
    /\ LookupFails(Combo(envs, loop))
    /\ orch_pc' = "keyerror"
    /\ UNCHANGED << config, i, loop, device_queue, tasks, status, wpc, device, launched,
                    cuda, logged, errors >>

\* Line 95 after the KeyError: the interpreter exits and the pool's
\* daemon processes are terminated with it.
Exit ==
    /\ orch_pc = "keyerror"
    /\ orch_pc' = "exited"
    /\ wpc' = [t \in Tasks |-> IF t \in Terminal THEN wpc[t] ELSE "killed"]
    /\ UNCHANGED << config, i, loop, device_queue, tasks, status, device, launched, cuda,
                    logged, errors >>

\* Line 76.
Close ==
    /\ orch_pc = "enum"
    /\ loop >= GridSize(envs)
    /\ orch_pc' = "closed"
    /\ UNCHANGED << config, i, loop, device_queue, tasks, status, wpc, device, launched,
                    cuda, logged, errors >>

\* join that does not wait for the tasks.
Join_NoWait ==
    /\ orch_pc = "closed"
    /\ orch_pc' = "returned"
    /\ UNCHANGED << config, i, loop, device_queue, tasks, status, wpc, device, launched,
                    cuda, logged, errors >>

\* Line 77: join returns when the pool's workers have finished every task.
Join ==
    /\ orch_pc = "closed"
    /\ Terminal = Tasks
    /\ orch_pc' = "returned"
    /\ UNCHANGED << config, i, loop, device_queue, tasks, status, wpc, device, launched,
                    cuda, logged, errors >>

\* ---------------------------------------------------------------------
\* The pool and _worker: lines 56-57, 72-75, 79-94
\* ---------------------------------------------------------------------
\* A pool that starts a process for every task at once, whatever their number.
Start_Unbounded(t) ==
    /\ wpc[t] = "queued"
    /\ \A u \in Tasks : u < t => wpc[u] # "queued"
    /\ wpc' = [wpc EXCEPT ![t] = "sleep"]
    /\ UNCHANGED << config, orch_pc, i, loop, device_queue, tasks, status, device, launched,
                    cuda, logged, errors >>

\* A pool whose processes are not replaced after a task that raised.
Start_NoRespawn(t) ==
    /\ wpc[t] = "queued"
    /\ \A u \in Tasks : u < t => wpc[u] # "queued"
    /\ Cardinality({u \in Tasks : wpc[u] \in {"sleep", "get", "acquired", "running",
                                               "put", "failed"}}) < max_worker_num
    /\ wpc' = [wpc EXCEPT ![t] = "sleep"]
    /\ UNCHANGED << config, orch_pc, i, loop, device_queue, tasks, status, device, launched,
                    cuda, logged, errors >>

\* A pool process takes the oldest queued task; the pool has max_worker_num
\* processes (line 57), each running one task at a time.
Start(t) ==
    /\ wpc[t] = "queued"
    /\ \A u \in Tasks : u < t => wpc[u] # "queued"
    /\ Cardinality(Active) < max_worker_num
    /\ wpc' = [wpc EXCEPT ![t] = "sleep"]
    /\ UNCHANGED << config, orch_pc, i, loop, device_queue, tasks, status, device, launched,
                    cuda, logged, errors >>

\* Line 82: the jitter sleep is over.
Wake(t) ==
    /\ wpc[t] = "sleep"
    /\ wpc' = [wpc EXCEPT ![t] = "get"]
    /\ UNCHANGED << config, orch_pc, i, loop, device_queue, tasks, status, device, launched,
                    cuda, logged, errors >>

\* get that reads the first token and leaves it in the queue.
Get_Peek(t) ==
    /\ wpc[t] = "get"
    /\ device_queue # << >>
    /\ device' = [device EXCEPT ![t] = Head(device_queue)]
    /\ wpc' = [wpc EXCEPT ![t] = "acquired"]
    /\ UNCHANGED << config, orch_pc, i, loop, device_queue, tasks, status, launched, cuda,
                    logged, errors >>

\* Line 84: device_queue.get() blocks while the queue is empty.
Get(t) ==
    /\ wpc[t] = "get"
    /\ device_queue # << >>
    /\ device' = [device EXCEPT ![t] = Head(device_queue)]
    /\ device_queue' = Tail(device_queue)
    /\ wpc' = [wpc EXCEPT ![t] = "acquired"]
    /\ UNCHANGED << config, orch_pc, i, loop, tasks, status, launched, cuda, logged, errors >>

\* The command started without waiting for it: the token goes back at once.
Launch_Async(t) ==
    /\ wpc[t] = "acquired"
    /\ launched' = [launched EXCEPT ![t] = @ + 1]
    /\ cuda' = [cuda EXCEPT ![t] = device[t].gpu]
    /\ device_queue' = Append(device_queue, device[t])
    /\ wpc' = [wpc EXCEPT ![t] = "running"]
    /\ UNCHANGED << config, orch_pc, i, loop, tasks, status, device, logged, errors >>

\* Lines 86-89: the command is logged and os.system starts it.
Launch(t) ==
    /\ wpc[t] = "acquired"
    /\ launched' = [launched EXCEPT ![t] = @ + 1]
    /\ cuda' = [cuda EXCEPT ![t] = device[t].gpu]
    /\ wpc' = [wpc EXCEPT ![t] = "running"]
    /\ UNCHANGED << config, orch_pc, i, loop, device_queue, tasks, status, device, logged,
                    errors >>

\* What os.system can return: 0, or the wait status of a command that
\* exited with code 1.
ExitStatuses == {0, 256}

\* The command run as by subprocess.check_call: a non-zero status raises.
CommandReturn_CheckStatus(t) ==
    /\ wpc[t] = "running"
    /\ \E st \in ExitStatuses :
          /\ status' = [status EXCEPT ![t] = st]
          /\ wpc' = [wpc EXCEPT ![t] = IF st = 0 THEN "put" ELSE "failed"]
          /\ logged' = (IF st = 0 THEN logged ELSE logged \cup {t})
          /\ errors' = (IF st = 0 THEN errors ELSE errors \cup {t})
    /\ UNCHANGED << config, orch_pc, i, loop, device_queue, tasks, device, launched,
                    cuda >>

\* Line 89: os.system returns; its exit status is dropped.
CommandReturn(t) ==
    /\ wpc[t] = "running"
    /\ \E st \in ExitStatuses : status' = [status EXCEPT ![t] = st]
    /\ wpc' = [wpc EXCEPT ![t] = "put"]
    /\ UNCHANGED << config, orch_pc, i, loop, device_queue, tasks, device, launched,
                    cuda, logged, errors >>

\* _worker returning without line 91.
Put_Drop(t) ==
    /\ wpc[t] = "put"
    /\ wpc' = [wpc EXCEPT ![t] = "done"]
    /\ UNCHANGED << config, orch_pc, i, loop, device_queue, tasks, status, device, launched,
                    cuda, logged, errors >>

\* Line 91, and the return of _worker.
Put(t) ==
    /\ wpc[t] = "put"
    /\ device_queue' = Append(device_queue, device[t])
    /\ wpc' = [wpc EXCEPT ![t] = "done"]
    /\ UNCHANGED << config, orch_pc, i, loop, tasks, status, device, launched, cuda, logged,
                    errors >>

\* An except clause that puts device back whether or not get had returned.
Fail_PutAlways(t) ==
    /\ wpc[t] \in {"sleep", "get", "acquired", "running", "put"}
    /\ wpc' = [wpc EXCEPT ![t] = "failed"]
    /\ device_queue' = Append(device_queue, device[t])
    /\ logged' = logged \cup {t}
    /\ errors' = errors \cup {t}
    /\ UNCHANGED << config, orch_pc, i, loop, tasks, status, device, launched, cuda >>

\* An except clause that puts the held token back before re-raising.
Fail_Release(t) ==
    /\ wpc[t] \in {"sleep", "get", "acquired", "running", "put"}
    /\ wpc' = [wpc EXCEPT ![t] = "failed"]
    /\ device_queue' = IF wpc[t] \in {"acquired", "running", "put"}
                       THEN Append(device_queue, device[t])
                       ELSE device_queue
    /\ logged' = logged \cup {t}
    /\ errors' = errors \cup {t}
    /\ UNCHANGED << config, orch_pc, i, loop, tasks, status, device, launched, cuda >>

\* A pool that queues a task again after it raised.
Fail_Retry(t) ==
    /\ wpc[t] \in {"sleep", "get", "acquired", "running", "put"}
    /\ wpc' = [wpc EXCEPT ![t] = "queued"]
    /\ logged' = logged \cup {t}
    /\ errors' = errors \cup {t}
    /\ UNCHANGED << config, orch_pc, i, loop, device_queue, tasks, status, device, launched,
                    cuda >>

\* Lines 92-94 and 75: a statement of the try block raises; the traceback
\* is logged, the exception re-raised and handed to error_callback.
Fail(t) ==
    /\ wpc[t] \in {"sleep", "get", "acquired", "running", "put"}
    /\ wpc' = [wpc EXCEPT ![t] = "failed"]
    /\ logged' = logged \cup {t}
    /\ errors' = errors \cup {t}
    /\ UNCHANGED << config, orch_pc, i, loop, device_queue, tasks, status, device, launched,
                    cuda >>

Next ==
    \/ CreatePool
    \/ InitPut
    \/ InitReturn
    \/ Submit
    \/ SubmitKeyError
    \/ Exit
    \/ Close
    \/ Join
    \/ \E t \in Tasks : Start(t)
    \/ \E t \in Tasks : Wake(t)
    \/ \E t \in Tasks : Get(t)
    \/ \E t \in Tasks : Launch(t)
    \/ \E t \in Tasks : CommandReturn(t)
    \/ \E t \in Tasks : Put(t)
    \/ \E t \in Tasks : Fail(t)

Spec == Init /\ [][Next]_vars

\* The scheduler runs every process that can take a step, and every
\* external command is taken to return; nothing obliges a worker to raise.
WorkerStep(t) ==
    /\ t \in Tasks
    /\ (Wake(t) \/ Get(t) \/ Launch(t) \/ CommandReturn(t) \/ Put(t))

MaxTasks ==
    Cardinality(EnvNames) * Len(me_types) * Len(maskps) * Len(batch_sizes) * Len(svrls)
        * Len(COMMANDS)

FairSpec ==
    /\ Spec
    /\ WF_vars(CreatePool \/ InitPut \/ InitReturn \/ Submit \/ SubmitKeyError
               \/ Exit \/ Close \/ Join)
    /\ WF_vars(\E t \in Tasks : Start(t))
    /\ \A t \in 1..MaxTasks : WF_vars(WorkerStep(t))

\* ---------------------------------------------------------------------
\* Vocabulary of the properties
\* ---------------------------------------------------------------------
\* The queue right after _init_device_queue.
Fill == _init_device_queue(max_worker_num, which_gpus)

Filled == orch_pc \notin {"start", "init"}

GpuIds == {which_gpus[j] : j \in DOMAIN which_gpus}

\* Invocations whose token was taken from the queue and has not been put back.
Outstanding == {t \in Tasks : device[t] # NoToken /\ wpc[t] # "done"}

\* Invocations that raised while they held a token.
Leaked == {t \in Tasks : wpc[t] = "failed" /\ device[t] # NoToken}

InQueue(d) == Cardinality({j \in DOMAIN device_queue : device_queue[j].gpu = d})

InFill(d) == Cardinality({j \in DOMAIN Fill : Fill[j].gpu = d})

HeldBy(S, d) == Cardinality({t \in S : device[t].gpu = d})

QueueTokens == {device_queue[j] : j \in DOMAIN device_queue}

NoWorkerFailed == \A t \in Tasks : wpc[t] \notin {"failed", "killed"}

Ceil(a, b) == (a + b - 1) \div b

\* C1: at most max_worker_num tokens are outstanding, and every device id is
\* held by at most ceil(max_worker_num / len(which_gpus)) workers at a time.
C1_BoundedOutstanding ==
    /\ Cardinality(Outstanding) <= max_worker_num
    /\ \A d \in GpuIds :
        HeldBy(Outstanding, d) <= Ceil(max_worker_num, Len(which_gpus))

\* Two devices, one of them held by two workers at once while a third
\* worker holds the other.
C1_Witness ==
    /\ Len(which_gpus) = 2
    /\ \E d \in GpuIds : HeldBy(Holding, d) = Ceil(max_worker_num, Len(which_gpus))
    /\ Cardinality(Holding) = 3

\* C2: while no worker has failed, the tokens in the queue together with the
\* tokens held by workers are exactly the tokens of the initial fill, each
\* in one place only, and when every worker has released the queue holds
\* the initial multiset again.
C2_TokenConservation ==
    (Filled /\ NoWorkerFailed) =>
        /\ Len(device_queue) + Cardinality(Holding) = max_worker_num
        /\ QueueTokens \cup {device[t] : t \in Holding} = {Fill[j] : j \in DOMAIN Fill}
        /\ \A d \in GpuIds : InQueue(d) + HeldBy(Holding, d) = InFill(d)
        /\ (\A t \in Tasks : wpc[t] \in {"queued", "done"}) =>
              /\ Len(device_queue) = max_worker_num
              /\ \A d \in GpuIds : InQueue(d) = InFill(d)

\* Three workers have all released, and the queue holds the initial
\* tokens in another order.
C2_Witness ==
    /\ Len(tasks) = 3
    /\ \A t \in Tasks : wpc[t] = "done"
    /\ device_queue # Fill
    /\ Len(which_gpus) = 2

\* C3: a worker that raises while it holds a token never puts it back: the
\* failure is logged and handed on, the token stays out of the queue, and
\* queue plus live holders stay one short for each such worker, for good.
C3_LeakOnFailure ==
    /\ [](/\ Leaked \subseteq logged
          /\ Leaked \subseteq errors
          /\ \A t \in Leaked : device[t] \notin QueueTokens
          /\ (Filled /\ orch_pc # "exited") =>
                Len(device_queue) + Cardinality(Holding)
                    = max_worker_num - Cardinality(Leaked))
    /\ [][/\ Leaked \subseteq Leaked'
          /\ \A t \in Tasks :
                (wpc[t] \in {"acquired", "running", "put"} /\ wpc'[t] = "failed") =>
                    /\ device_queue' = device_queue
                    /\ t \in Leaked']_vars

\* A worker has leaked its token and a later worker has since run to its end.
C3_Witness ==
    \E t, u \in Tasks :
        /\ t \in Leaked
        /\ t < u
        /\ wpc[u] = "done"
        /\ Len(device_queue) = max_worker_num - 1

\* C4 as stated: whatever tasks fail, once everything is submitted every
\* task ends, the ones that did not fail having run their command.
C4_Original ==
    (orch_pc = "closed") ~>
        (\A t \in Tasks : wpc[t] = "failed" \/ (wpc[t] = "done" /\ launched[t] = 1))

\* C4, amended: a failing task changes no other task and is never run
\* again, and once everything is submitted every task ends, the ones that
\* did not fail having run their command, unless all max_worker_num tokens
\* have been leaked by failed workers.
C4_FailureIsolation ==
    /\ (orch_pc = "closed") ~>
          \/ \A t \in Tasks : wpc[t] = "failed" \/ (wpc[t] = "done" /\ launched[t] = 1)
          \/ Cardinality(Leaked) = max_worker_num
    /\ [][\A t \in Tasks :
            /\ (wpc[t] = "failed" =>
                   wpc'[t] \in {"failed"} /\ launched'[t] = launched[t])
            /\ (wpc[t] # "failed" /\ wpc'[t] = "failed") =>
                   \A u \in Tasks \ {t} : wpc'[u] = wpc[u] /\ device'[u] = device[u]]_vars

\* As many tasks as the pool has processes have failed, one of them with
\* a token, and a later task has still been started and runs its command.
C4_Witness ==
    /\ Cardinality({t \in Tasks : wpc[t] = "failed"}) = max_worker_num
    /\ Leaked # {}
    /\ \E u \in Tasks : wpc[u] = "running" /\ \A t \in Tasks : t < u => wpc[t] = "failed"

\* C5 as stated: when a lookup has raised, nothing has been submitted and
\* no command has been run.
C5_Original ==
    orch_pc \in {"keyerror", "exited"} =>
        /\ tasks = << >>
        /\ \A t \in Tasks : launched[t] = 0

\* Every token of device d has been leaked by a failed worker.
AllLeakedOf(d) == Filled /\ HeldBy(Leaked, d) = InFill(d)

AllLeaked == Filled /\ Cardinality(Leaked) = max_worker_num

\* C6: once every token of a device id has leaked, that stays so and no
\* worker is ever handed that id again; once all max_worker_num tokens
\* have leaked the queue stays empty, no get returns a token, and join
\* does not return while a worker waits in get.
C6_StarvationAfterLeaks ==
    /\ [][\A d \in GpuIds : AllLeakedOf(d) =>
            /\ AllLeakedOf(d)'
            /\ InQueue(d)' = 0
            /\ \A t \in Tasks : device'[t].gpu = d => device[t].gpu = d]_vars
    /\ [][AllLeaked =>
            /\ AllLeaked'
            /\ device_queue' = << >>
            /\ \A t \in Tasks :
                  wpc[t] \in {"queued", "sleep", "get"} =>
                      /\ wpc'[t] \in {"queued", "sleep", "get", "failed", "killed"}
                      /\ device'[t] = NoToken
            /\ (\E t \in Tasks : wpc[t] = "get") => orch_pc' # "returned"]_vars

\* All tokens have leaked, everything is submitted, and a worker waits in get.
C6_Witness ==
    /\ AllLeaked
    /\ orch_pc = "closed"
    /\ \E t \in Tasks : wpc[t] = "get"

\* C7: while a worker's command runs, the worker holds one token, taken
\* before the launch, whose device id the command was given as
\* CUDA_VISIBLE_DEVICES; that token is in the queue and with no other
\* worker until the command has returned.
C7_TokenHeldWhileRunning ==
    /\ \A t \in Tasks : wpc[t] = "running" =>
          /\ device[t] # NoToken
          /\ device[t] \in {Fill[j] : j \in DOMAIN Fill}
          /\ cuda[t] = device[t].gpu
          /\ launched[t] = 1
          /\ device[t] \notin QueueTokens
          /\ \A u \in Holding \ {t} : device[u] # device[t]
    /\ \A t \in Tasks : wpc[t] \in {"queued", "sleep", "get", "acquired"} =>
          launched[t] = 0 /\ cuda[t] = -1
    /\ \A t \in Tasks : wpc[t] \in {"put", "done"} => launched[t] = 1

\* A command runs on a device while another worker waits in get at an
\* empty queue.
C7_Witness ==
    /\ device_queue = << >>
    /\ \E t, u \in Tasks : wpc[t] = "running" /\ wpc[u] = "get"

\* C8: a worker in get at an empty queue gets no token; a get that returns
\* removes exactly the head token and hands it to that worker alone; no
\* token is with two workers at once.
C8_AtomicAcquire ==
    /\ [](\A t, u \in Holding : t # u => device[t] # device[u])
    /\ [](\A t \in Holding : device[t] \notin QueueTokens)
    /\ [][\A t \in Tasks :
            /\ (wpc[t] = "get" /\ device_queue = << >>) =>
                   wpc'[t] \in {"get", "failed", "killed"} /\ device'[t] = NoToken
            /\ (wpc[t] = "get" /\ wpc'[t] = "acquired") =>
                   /\ device'[t] = Head(device_queue)
                   /\ device_queue' = Tail(device_queue)
                   /\ \A u \in Tasks \ {t} : device'[u] = device[u]]_vars

\* A token a worker has put back is now with another worker, which had
\* to wait for it.
C8_Witness ==
    \E t, u \in Tasks :
        /\ t # u
        /\ wpc[t] = "done"
        /\ wpc[u] = "acquired"
        /\ device[u] = device[t]
        /\ max_worker_num < Len(tasks)

\* C9: run() has returned only when every combination has been submitted
\* and every submitted task has completed or failed.
C9_JoinWaitsForAll ==
    orch_pc = "returned" =>
        /\ Len(tasks) = GridSize(envs)
        /\ \A t \in Tasks : wpc[t] \in {"done", "failed"}

\* run() has returned after three tasks, of which one failed.
C9_Witness ==
    /\ orch_pc = "returned"
    /\ Len(tasks) = 3
    /\ Cardinality({t \in Tasks : wpc[t] = "failed"}) = 1
    /\ Cardinality({t \in Tasks : wpc[t] = "done"}) = 2

\* C10: the submitted tasks are the combinations of the grid in order, each
\* once; every command is launched at most once, exactly once when its
\* worker got as far as the launch, and a failed task is not queued again.
C10_ExactlyOnce ==
    /\ [](/\ Len(tasks) = loop
          /\ loop <= GridSize(envs)
          /\ \A k \in Tasks : tasks[k] = Command(Combo(envs, k - 1))
          /\ \A a, b \in Tasks : a # b => tasks[a] # tasks[b]
          /\ DOMAIN wpc = Tasks
          /\ \A t \in Tasks : launched[t] <= 1
          /\ \A t \in Tasks : wpc[t] \in {"running", "put", "done"} => launched[t] = 1
          /\ orch_pc = "returned" => Len(tasks) = GridSize(envs))
    /\ [][\A t \in Tasks :
            /\ tasks'[t] = tasks[t]
            /\ launched'[t] >= launched[t]
            /\ wpc[t] \in {"done", "failed", "killed"} =>
                  wpc'[t] = wpc[t] /\ launched'[t] = launched[t]]_vars

\* run() has returned with one task that failed before its launch, one
\* that failed after it and one that completed.
C10_Witness ==
    /\ orch_pc = "returned"
    /\ \E a, b, c \in Tasks :
          /\ wpc[a] = "failed" /\ launched[a] = 0
          /\ wpc[b] = "failed" /\ launched[b] = 1
          /\ wpc[c] = "done" /\ launched[c] = 1

\* C11 as stated: every worker that has taken a token ends by putting it
\* back or by failing with its traceback logged, and no worker has ended
\* with a token it neither put back nor logged a failure for.
C11_Original ==
    /\ \A t \in 1..MaxTasks :
          [](t \in Holding =>
                <>(t \in Tasks /\ (wpc[t] = "done" \/ (wpc[t] = "failed" /\ t \in logged))))
    /\ [](\A t \in Terminal :
            device[t] # NoToken => (wpc[t] = "done" \/ t \in logged))

\* The same round trip in the runs whose enumeration raises no KeyError.
C11_RoundTripWithoutKeyError ==
    \A t \in 1..MaxTasks :
        [](t \in Holding =>
              <>(\/ t \in Tasks /\ wpc[t] = "done"
                 \/ t \in Tasks /\ wpc[t] = "failed" /\ t \in logged /\ t \in errors
                 \/ orch_pc \in {"keyerror", "exited"}))

\* ---------------------------------------------------------------------
\* _init_device_queue on its own, for any worker count and device list
\* ---------------------------------------------------------------------
MaxFillWorkers == 8

MaxFillGpus == 4

\* Device lists: 1..MaxFillGpus distinct ids out of 0..MaxFillGpus-1, in any order.
FillGpuLists ==
    {s \in UNION {[1..n -> 0..(MaxFillGpus - 1)] : n \in 1..MaxFillGpus} :
        \A a, b \in DOMAIN s : a # b => s[a] # s[b]}

\* The call _init_device_queue(max_worker_num) is entered with an empty queue.
FillInit ==
    /\ envs = << "AlienNoFrameskip-v4" >>
    /\ which_gpus \in FillGpuLists
    /\ max_worker_num \in 0..MaxFillWorkers
    /\ grid = ShippedGrid
    /\ orch_pc = "init"
    /\ i = 0
    /\ loop = 0
    /\ device_queue = << >>
    /\ tasks = << >>
    /\ wpc = << >>
    /\ device = << >>
    /\ launched = << >>
    /\ cuda = << >>
    /\ status = << >>
    /\ logged = {}
    /\ errors = {}

FillNext == InitPut \/ InitReturn

FillSpec == FillInit /\ [][FillNext]_vars

\* C12: _init_device_queue(W) returns W tokens, the j-th (from 0) being
\* which_gpus[j % K], so every device id is there floor(W/K) or ceil(W/K)
\* times, the first W % K ids of the list once more than the others
\* (K = 4, W = 8: each twice).
C12_RoundRobinFill ==
    LET W == max_worker_num
        K == Len(which_gpus)
    IN  /\ Len(device_queue) = (IF orch_pc = "init" THEN i ELSE W)
        /\ i <= W
        /\ \A j \in 0..(Len(device_queue) - 1) :
              device_queue[j + 1].gpu = which_gpus[(j % K) + 1]
        /\ orch_pc = "enum" =>
              /\ \A p \in 1..K :
                    InQueue(which_gpus[p]) = (W \div K) + (IF p <= W % K THEN 1 ELSE 0)
              /\ \A d \in GpuIds : InQueue(d) \in {W \div K, Ceil(W, K)}
              /\ (K = 4 /\ W = 8) => \A d \in GpuIds : InQueue(d) = 2

\* Eight tokens over three devices listed out of order: one device has
\* two tokens, another three.
C12_Witness ==
    /\ orch_pc = "enum"
    /\ max_worker_num = 8
    /\ which_gpus = << 2, 0, 1 >>
    /\ InQueue(1) = 2
    /\ InQueue(2) = 3

\* ---------------------------------------------------------------------
\* The enumeration of run() on its own, for any grid
\* ---------------------------------------------------------------------
\* The non-empty lists without repetition over the values S.
ListsOver(S) ==
    {s \in UNION {[1..n -> S] : n \in 1..Cardinality(S)} :
        \A a, b \in DOMAIN s : a # b => s[a] # s[b]}

\* Grids over the values the source names for each list (lines 13-23).
Grids ==
    [COMMANDS    : {COMMANDS},
     svrls       : ListsOver({"--svrl", ""}),
     batch_sizes : ListsOver({32, 64}),
     maskps      : ListsOver({"0.1", "0.5"}),
     me_types    : ListsOver({"svt", "iterative_svd"})]

\* run() stands before its loops (line 60), the queue filled, no task yet.
EnumInit ==
    /\ envs \in ListsOver(EnvNames)
    /\ which_gpus = << 0 >>
    /\ max_worker_num = Len(which_gpus) * WorkersPerGpu
    /\ grid \in Grids
    /\ orch_pc = "enum"
    /\ i = max_worker_num
    /\ loop = 0
    /\ device_queue = _init_device_queue(max_worker_num, which_gpus)
    /\ tasks = << >>
    /\ wpc = << >>
    /\ device = << >>
    /\ launched = << >>
    /\ cuda = << >>
    /\ status = << >>
    /\ logged = {}
    /\ errors = {}

EnumNext == Submit \/ SubmitKeyError \/ Close

EnumSpec == EnumInit /\ [][EnumNext]_vars

\* Position of v in the list s.
Idx(s, v) == CHOOSE j \in DOMAIN s : s[j] = v

\* Where a task stands in each of the five lists, outermost first.
Key(c) ==
    << Idx(envs, c.env), Idx(grid.me_types, c.me_type), Idx(grid.maskps, c.maskp),
       Idx(grid.batch_sizes, c.batch_size), Idx(grid.svrls, c.svrl) >>

LexLess(x, y) ==
    \E p \in 1..5 : x[p] < y[p] /\ \A q \in 1..(p - 1) : x[q] = y[q]

\* C13: when every name of envs is in the lookup tables, the tasks submitted
\* number |envs| x |me_types| x |maskps| x |batch_sizes| x |svrls|; at any
\* time the submitted commands are pairwise distinct, so are their output
\* tags, and they stand in nested-loop order, environment outermost, then
\* estimator type, mask probability, batch size, variant flag.
C13_EnumerationCountAndTags ==
    /\ orch_pc = "closed" =>
          Len(tasks) = Len(envs) * Len(grid.me_types) * Len(grid.maskps)
                          * Len(grid.batch_sizes) * Len(grid.svrls)
    /\ \A a, b \in Tasks : a # b =>
          /\ tasks[a].text # tasks[b].text
          /\ tasks[a].tag # tasks[b].tag
    /\ \A a, b \in Tasks : a < b => LexLess(Key(tasks[a]), Key(tasks[b]))
    /\ \A a \in Tasks :
          /\ tasks[a].env \in {envs[j] : j \in DOMAIN envs}
          /\ tasks[a].me_type \in {grid.me_types[j] : j \in DOMAIN grid.me_types}
          /\ tasks[a].maskp \in {grid.maskps[j] : j \in DOMAIN grid.maskps}
          /\ tasks[a].batch_size \in {grid.batch_sizes[j] : j \in DOMAIN grid.batch_sizes}
          /\ tasks[a].svrl \in {grid.svrls[j] : j \in DOMAIN grid.svrls}

\* Three environments and two values in every other list: 48 tasks.
C13_Witness ==
    /\ orch_pc = "closed"
    /\ Len(envs) = 3
    /\ Len(tasks) = 48
    /\ tasks[1].tag = "alien_dqn__svt_0.5_64"
    /\ tasks[2].tag = "alien_dqn_svrl_svt_0.5_64"
    /\ tasks[3].tag = "alien_dqn__svt_0.5_32"

\* The state of the worker state machine a position of _worker stands for.
WorkerState(p) ==
    CASE p \in {"queued", "sleep"} -> "PENDING"
      [] p = "get" -> "JITTERED"
      [] p = "acquired" -> "ACQUIRED"
      [] p \in {"running", "put"} -> "RUNNING"
      [] p = "done" -> "RELEASED"
      [] p = "failed" -> "FAILED"
      [] p = "killed" -> "TERMINATED"

SuccessPath ==
    { << "PENDING", "JITTERED" >>, << "JITTERED", "ACQUIRED" >>,
      << "ACQUIRED", "RUNNING" >>, << "RUNNING", "RELEASED" >> }

\* C14 as stated: a worker moves along PENDING, JITTERED, ACQUIRED, RUNNING,
\* RELEASED one state at a time, or from RUNNING to FAILED, and nowhere else.
C14_Original ==
    [][\A t \in Tasks :
          \/ WorkerState(wpc'[t]) = WorkerState(wpc[t])
          \/ << WorkerState(wpc[t]), WorkerState(wpc'[t]) >> \in SuccessPath
          \/ << WorkerState(wpc[t]), WorkerState(wpc'[t]) >> = << "RUNNING", "FAILED" >>]_vars

\* C14, amended: a worker moves along PENDING, JITTERED, ACQUIRED, RUNNING,
\* RELEASED one state at a time, or to FAILED from any of PENDING, JITTERED,
\* ACQUIRED and RUNNING, holding a token exactly when it fails after
\* JITTERED; RELEASED and FAILED are final; a worker that is not yet final
\* is ended where it stands only by the interpreter exiting after a
\* KeyError in run().
C14_WorkerStateMachine ==
    /\ [][\A t \in Tasks :
            \/ WorkerState(wpc'[t]) = WorkerState(wpc[t])
            \/ << WorkerState(wpc[t]), WorkerState(wpc'[t]) >> \in SuccessPath
            \/ /\ WorkerState(wpc[t]) \in {"PENDING", "JITTERED", "ACQUIRED", "RUNNING"}
               /\ WorkerState(wpc'[t]) = "FAILED"
            \/ /\ WorkerState(wpc[t]) \in {"PENDING", "JITTERED", "ACQUIRED", "RUNNING"}
               /\ WorkerState(wpc'[t]) = "TERMINATED"
               /\ orch_pc = "keyerror"
               /\ orch_pc' = "exited"]_vars
    /\ [](\A t \in Tasks :
            /\ wpc[t] = "failed" => (t \in Leaked <=> device[t] # NoToken)
            /\ WorkerState(wpc[t]) \in {"PENDING", "JITTERED"} => device[t] = NoToken
            /\ WorkerState(wpc[t]) \in {"ACQUIRED", "RUNNING", "RELEASED"} => device[t] # NoToken)

\* One worker has released, one has failed before it had a token and one
\* has failed with a token.
C14_Witness ==
    \E a, b, c \in Tasks :
        /\ wpc[a] = "done"
        /\ wpc[b] = "failed" /\ device[b] = NoToken
        /\ wpc[c] = "failed" /\ device[c] # NoToken

\* ---------------------------------------------------------------------
\* C15  The exit status of the launched command is ignored.  Whatever
\* os.system returns (line 89), zero or not, the worker goes on to the
\* put of line 91 with nothing logged and nothing raised; the put that
\* follows gives back the very token the worker took, and the worker
\* ends done, never logged as failed on account of its status.
C15_ExitStatusIgnored ==
    /\ [][\A t \in Tasks :
            (status[t] = -1 /\ status'[t] # -1) =>
                /\ wpc[t] = "running" /\ wpc'[t] = "put"
                /\ status'[t] \in ExitStatuses
                /\ device' = device /\ device_queue' = device_queue
                /\ logged' = logged /\ errors' = errors]_vars
    /\ [][\A t \in Tasks :
            (wpc[t] = "put" /\ wpc'[t] = "done") =>
                /\ device_queue' = Append(device_queue, device[t])
                /\ logged' = logged /\ errors' = errors]_vars
    /\ [](\A t \in Tasks :
            /\ wpc[t] = "put" => status[t] \in ExitStatuses /\ ENABLED Put(t)
            /\ wpc[t] = "done" =>
                 status[t] \in ExitStatuses /\ t \notin logged /\ t \notin errors
            /\ status[t] # -1 => wpc[t] \in {"put", "done", "failed", "killed"})

\* A worker whose command returned a nonzero status is done, unlogged,
\* and its token is back in the queue.
C15_Witness ==
    \E t \in Tasks :
        /\ status[t] = 256
        /\ wpc[t] = "done"
        /\ device[t] \in QueueTokens
        /\ t \notin logged
        /\ t \notin errors

\* ---------------------------------------------------------------------
\* C16  Initialise before acquire.  The queue is filled once: run() enters
\* _init_device_queue once and never again, each of its W puts happens
\* once, with no task submitted yet.  Every submission, and so every get
\* of a worker, finds the fill complete: all W puts done, and at the first
\* submission the queue is exactly the fill.
C16_InitialiseBeforeAcquire ==
    /\ [][/\ (orch_pc' = "init" /\ orch_pc # "init") => orch_pc = "start" /\ i = 0
          /\ orch_pc' = "start" => orch_pc = "start"
          /\ i' # i =>
               /\ orch_pc = "init" /\ orch_pc' = "init"
               /\ i' = i + 1 /\ i' <= max_worker_num
               /\ device_queue' = Append(device_queue, Fill[i'])
               /\ tasks = << >> /\ tasks' = << >>
          /\ Len(tasks') > Len(tasks) =>
               /\ orch_pc = "enum" /\ i = max_worker_num
               /\ tasks = << >> => device_queue = Fill
          /\ (\E t \in Tasks : wpc[t] = "get" /\ wpc'[t] = "acquired") =>
               /\ Filled /\ i = max_worker_num
               /\ Len(device_queue) + Cardinality(Outstanding) = max_worker_num]_vars
    /\ [](/\ orch_pc = "start" => i = 0 /\ device_queue = << >>
          /\ orch_pc = "init" => device_queue = SubSeq(Fill, 1, i)
          /\ ~Filled => tasks = << >>
          /\ Filled => i = max_worker_num)

\* The first get of a run: the worker holds the first token of the
\* complete fill and the queue holds all the others.
C16_Witness ==
    /\ i = max_worker_num
    /\ max_worker_num = 2 * MaxGpus
    /\ \E t \in Tasks :
         /\ wpc[t] = "acquired"
         /\ device[t] = Fill[1]
         /\ device_queue = Tail(Fill)
         /\ Outstanding = {t}

\* ---------------------------------------------------------------------
\* C17  Acquire never blocks without failures.  While no worker has
\* failed, the queue is non-empty whenever a worker is about to call
\* device_queue.get(), so its get can be taken at once; this holds also
\* when more tasks were submitted than the pool has processes.
C17_AcquireNeverBlocks ==
    NoWorkerFailed =>
        \A t \in Tasks :
            wpc[t] = "get" =>
                /\ device_queue # << >>
                /\ Len(device_queue) >= max_worker_num - Cardinality(Active) + 1
                /\ ENABLED Get(t)

\* More tasks than pool processes, no failure, every process busy, one
\* task waiting for a process, and a worker about to get finds the one
\* token the others left.
C17_Witness ==
    /\ NoWorkerFailed
    /\ Len(tasks) > max_worker_num
    /\ Cardinality(Active) = max_worker_num
    /\ Len(device_queue) = 1
    /\ \E t \in Tasks : wpc[t] = "get"
    /\ \E t \in Tasks : wpc[t] = "queued"

\* ---------------------------------------------------------------------
\* C18  Termination.  Every name of envs has its entries in the two maps,
\* so that the enumeration submits every combination.
ValidEnvs ==
    \A j \in DOMAIN envs :
        envs[j] \in DOMAIN timestamp_map /\ envs[j] \in DOMAIN env_name_map

\* run() has returned, every combination was submitted, every task is
\* released and the queue holds the W tokens of the fill.
AllReleased ==
    /\ orch_pc = "returned"
    /\ Len(tasks) = GridSize(envs)
    /\ \A t \in Tasks : wpc[t] = "done" /\ launched[t] = 1
    /\ Len(device_queue) = max_worker_num
    /\ QueueTokens = {Fill[j] : j \in DOMAIN Fill}

\* C18: with weak fairness on the steps of run(), of the pool and of every
\* worker, and every command returning, a run over valid envs in which no
\* worker raises reaches the state where every submitted task is released
\* and run() has returned with all W tokens in the queue; this holds also
\* when there are more tasks than pool processes.
C18_Termination ==
    ValidEnvs => <>(errors # {} \/ [](AllReleased /\ errors = {}))

\* Three tasks through a pool of two processes, all released, no raise,
\* one command with a non-zero status, run() returned, both tokens back.
C18_Witness ==
    /\ AllReleased
    /\ errors = {}
    /\ max_worker_num = 2
    /\ Len(tasks) = 3
    /\ \E t \in Tasks : status[t] # 0

\* ---------------------------------------------------------------------
\* C19  Failure before acquisition leaves the pool unchanged.  A worker
\* that raises in the jitter sleep or inside device_queue.get(), before a
\* token was returned to it, holds no token; the step of its failure
\* leaves the queue as it was and leaves every worker's token and
\* position as they were, so no token is leaked and none is put back.
C19_FailureBeforeAcquisition ==
    /\ [][\A t \in Tasks :
            (wpc[t] \in {"sleep", "get"} /\ wpc'[t] = "failed") =>
                /\ device[t] = NoToken
                /\ device_queue' = device_queue
                /\ device' = device
                /\ \A u \in Tasks \ {t} : wpc'[u] = wpc[u]
                /\ Leaked' = Leaked
                /\ Outstanding' = Outstanding
                /\ t \in logged' /\ t \in errors']_vars
    /\ [](\A t \in Tasks : wpc[t] \in {"queued", "sleep", "get"} => device[t] = NoToken)

\* A worker failed before it had a token while another worker holds one:
\* the failed worker has none, and every token of the fill is in the
\* queue or with the worker that holds it.
C19_Witness ==
    \E t, u \in Tasks :
        /\ wpc[t] = "failed"
        /\ device[t] = NoToken
        /\ t \in errors
        /\ wpc[u] = "running"
        /\ Leaked = {}
        /\ Len(device_queue) = max_worker_num - 1
        /\ QueueTokens \cup {device[u]} = {Fill[j] : j \in DOMAIN Fill}

====
